---- MODULE Spec2Model ----
(***************************************************************************)
(* A model of the ZOL faction game program (zol-contract/src/lib.rs): the  *)
(* game state, the user positions, the token accounts the instructions     *)
(* move value between, and one action per instruction.                     *)
(***************************************************************************)
EXTENDS Integers, Sequences, FiniteSets, TLC

(***************************************************************************)
(* IEEE-754 binary64 arithmetic, as far as resolve_epoch uses it.          *)
(* A natural number of any size is a sequence of limbs, least significant  *)
(* first, each limb in 0..LimbBase-1.  A finite f64 is [neg, m, e]: m is   *)
(* the significand, a natural that is 0 or in 2^52..2^53-1, and e is the   *)
(* exponent of its unit, so the value is (-1)^neg * m * 2^e.  Every        *)
(* operation computes the exact result and rounds it to nearest, ties to   *)
(* even.  Values stay far inside the normal range.                         *)
(***************************************************************************)
MantBits == 53
LimbBits == 7
LimbBase == 2^LimbBits

\* The limbs of the natural number n (<<>> for 0).
RECURSIVE NatLimbs(_)
NatLimbs(n) == IF n = 0 THEN <<>> ELSE <<n % LimbBase>> \o NatLimbs(n \div LimbBase)

\* The natural number a limb sequence stands for (small ones only).
RECURSIVE LimbsNat(_)
LimbsNat(x) == IF x = <<>> THEN 0 ELSE x[1] + LimbBase * LimbsNat(Tail(x))

\* Limb i of x, 0 beyond its length.
LimbAt(x, i) == IF i >= 1 /\ i <= Len(x) THEN x[i] ELSE 0

\* x without its most significant zero limbs.
RECURSIVE Strip(_)
Strip(x) == IF x = <<>> \/ x[Len(x)] # 0 THEN x ELSE Strip(SubSeq(x, 1, Len(x) - 1))

\* The number of bits of x (0 for 0), x stripped.
BitLen(x) ==
    IF x = <<>> THEN 0
    ELSE (Len(x) - 1) * LimbBits
         + (CHOOSE w \in 1..LimbBits : 2^(w - 1) <= x[Len(x)] /\ x[Len(x)] < 2^w)

\* floor(x / 2^s).
BigShr(x, s) ==
    LET q == s \div LimbBits
        r == s % LimbBits
    IN  Strip([i \in 1..(IF Len(x) > q THEN Len(x) - q ELSE 0) |->
                  (LimbAt(x, i + q) \div 2^r)
                  + (LimbAt(x, i + q + 1) % 2^r) * 2^(LimbBits - r)])

\* x * 2^s.
BigShl(x, s) ==
    LET q == s \div LimbBits
        r == s % LimbBits
    IN  Strip([i \in 1..(Len(x) + q + 1) |->
                  (LimbAt(x, i - q) % 2^(LimbBits - r)) * 2^r
                  + (LimbAt(x, i - q - 1) \div 2^(LimbBits - r))])

\* Bit i of x, bit 0 the least significant.
BitAt(x, i) == (LimbAt(x, i \div LimbBits + 1) \div 2^(i % LimbBits)) % 2

\* Some of the s least significant bits of x is 1.
LowBitsSet(x, s) ==
    \/ \E i \in 1..(s \div LimbBits) : LimbAt(x, i) # 0
    \/ LimbAt(x, s \div LimbBits + 1) % 2^(s % LimbBits) # 0

\* x + 1.
RECURSIVE BigInc(_)
BigInc(x) ==
    IF x = <<>> THEN <<1>>
    ELSE IF x[1] < LimbBase - 1 THEN <<x[1] + 1>> \o Tail(x)
    ELSE <<0>> \o BigInc(Tail(x))

\* x >= y, comparing limbs from limb i down.
RECURSIVE BigGeqFrom(_, _, _)
BigGeqFrom(x, y, i) ==
    IF i = 0 THEN TRUE
    ELSE IF LimbAt(x, i) # LimbAt(y, i) THEN LimbAt(x, i) > LimbAt(y, i)
    ELSE BigGeqFrom(x, y, i - 1)

BigGeq(x, y) == BigGeqFrom(x, y, IF Len(x) > Len(y) THEN Len(x) ELSE Len(y))

\* The limbs from limb i on of x - y - borrow, for x >= y.
RECURSIVE BigSubFrom(_, _, _, _)
BigSubFrom(x, y, i, borrow) ==
    IF i > Len(x) THEN <<>>
    ELSE LET d == x[i] - LimbAt(y, i) - borrow
         IN  <<d % LimbBase>> \o BigSubFrom(x, y, i + 1, IF d < 0 THEN 1 ELSE 0)

BigSub(x, y) == Strip(BigSubFrom(x, y, 1, 0))

\* The limbs from limb i on of x * k + carry, for a natural k below LimbBase.
RECURSIVE BigMulFrom(_, _, _, _)
BigMulFrom(x, k, i, carry) ==
    IF i > Len(x) THEN NatLimbs(carry)
    ELSE LET p == x[i] * k + carry
         IN  <<p % LimbBase>> \o BigMulFrom(x, k, i + 1, p \div LimbBase)

BigMulSmall(x, k) == Strip(BigMulFrom(x, k, 1, 0))

F64Zero == [neg |-> FALSE, m |-> <<>>, e |-> 0]

\* The f64 nearest to (-1)^neg * (mag + tail) * 2^e, ties to even, where sticky
\* says that a tail in (0, 1) follows the natural mag (of more than MantBits
\* bits when sticky).
RoundF64(neg, mag, e, sticky) ==
    LET s == Strip(mag)
        n == BitLen(s)
    IN  IF n = 0 THEN F64Zero
        ELSE IF n <= MantBits
        THEN [neg |-> neg, m |-> BigShl(s, MantBits - n), e |-> e - (MantBits - n)]
        ELSE LET cut   == n - MantBits
                 kept  == BigShr(s, cut)
                 guard == BitAt(s, cut - 1)
                 rest  == sticky \/ LowBitsSet(s, cut - 1)
                 up    == guard = 1 /\ (rest \/ BitAt(kept, 0) = 1)
                 r     == IF up THEN BigInc(kept) ELSE kept
             IN  IF BitLen(r) > MantBits
                 THEN [neg |-> neg, m |-> BigShr(r, 1), e |-> e + cut + 1]
                 ELSE [neg |-> neg, m |-> r, e |-> e + cut]

\* `x as i64`: truncation toward zero (x of small magnitude).
F64ToI64(x) ==
    LET int == IF x.e >= 0 THEN BigShl(x.m, x.e) ELSE BigShr(x.m, 0 - x.e)
    IN  IF x.neg THEN 0 - LimbsNat(int) ELSE LimbsNat(int)

\* `n as f64` for an unsigned integer below 2^53: exact.
U64ToF64(n) == RoundF64(FALSE, NatLimbs(n), 0, FALSE)

\* Long division: the next n limbs of the binary fraction r / d (r < d), most
\* significant limb first, and the remainder left after them as the last
\* element.  (r * LimbBase stays below 2^31 for d up to 2^24.)
RECURSIVE FracLimbs(_, _, _)
FracLimbs(r, d, n) ==
    IF n = 0 THEN <<r>>
    ELSE <<(r * LimbBase) \div d>> \o FracLimbs((r * LimbBase) % d, d, n - 1)

Reverse(s) == [i \in 1..Len(s) |-> s[Len(s) + 1 - i]]

\* The number of leading zero limbs of the binary fraction r / d (0 < r < d).
RECURSIVE LeadingZeroLimbs(_, _)
LeadingZeroLimbs(r, d) ==
    IF r * LimbBase >= d THEN 0 ELSE 1 + LeadingZeroLimbs(r * LimbBase, d)

\* a / b correctly rounded, for the naturals a and b > 0 up to 2^24: long
\* division yields the integer part and then whole limbs of the fraction, more
\* bits than the significand and its guard bit need; the remainder is the
\* sticky tail.
F64DivInt(a, b) ==
    IF a = 0 THEN F64Zero
    ELSE LET q  == a \div b
             r  == a % b
             lz == IF q = 0 THEN LeadingZeroLimbs(r, b) ELSE 0
             n  == lz + 1 + (MantBits + 1 + LimbBits - 1) \div LimbBits
             fl == FracLimbs(r, b, n)
         IN  RoundF64(FALSE, Reverse(SubSeq(fl, 1, n)) \o NatLimbs(q),
                      0 - n * LimbBits, fl[n + 1] # 0)

\* x / y for two f64 that hold integers up to 2^24, as `tvl as f64` does here.
F64Div(x, y) == F64DivInt(F64ToI64(x), F64ToI64(y))

\* x - y for two f64 that are not negative, correctly rounded: the exact
\* difference of the significands aligned on the smaller exponent, rounded.
F64Sub(x, y) ==
    IF y.m = <<>> THEN x
    ELSE IF x.m = <<>> THEN [y EXCEPT !.neg = TRUE]
    ELSE LET e  == IF x.e < y.e THEN x.e ELSE y.e
             xa == BigShl(x.m, x.e - e)
             ya == BigShl(y.m, y.e - e)
         IN  IF BigGeq(xa, ya)
             THEN RoundF64(FALSE, BigSub(xa, ya), e, FALSE)
             ELSE RoundF64(TRUE, BigSub(ya, xa), e, FALSE)

\* x * k for an f64 x and a natural k below LimbBase (which an f64 holds exactly).
F64MulSmall(x, k) ==
    IF x.m = <<>> THEN x ELSE RoundF64(x.neg, BigMulSmall(x.m, k), x.e, FALSE)

(***************************************************************************)
(* Bounds of the model and the sets the instructions' inputs are drawn     *)
(* from.                                                                   *)
(***************************************************************************)
\* The largest value of the unsigned integer type the model gives to u64
\* fields (checked_add fails above it).
MaxU64 == 16777215
\* The epoch number start_new_epoch stops at.
MaxEpoch == 2
\* The tokens each token account outside the program starts with in the ledger
\* specification; in the settlement specification, the tokens of the depositor
\* and those of the yield provider.
LedgerFunds == 3000000
SettleFunds == 12000000
SettleProviderFunds == 12000000

Users == {"u1", "u2"}
Admin == "admin"
NoPosition == [registered |-> FALSE]
None == 0 - 1

(***************************************************************************)
(* Program constants.                                                      *)
(***************************************************************************)
SwordPrice == 10000000
ShieldPrice == 2000000
SpyglassPrice == 5000000
InsurancePayout == 2000000
ScoreScale == 10000
BoostDivisor == 5
NumFactions == 3

Factions == 0..(NumFactions - 1)
AutoCompound == "AutoCompound"
SendToWallet == "SendToWallet"

\* AutomationRule::default()
DefaultRule == [item_id |-> 0, threshold |-> 0]
\* UserInventory::default()
DefaultInventory == [sword_count |-> 0, shield_count |-> 0, spyglass_count |-> 0]

VARIABLES
    game_state,     \* the GameState account
    user_position,  \* the UserPosition account of each user, or NoPosition
    vault,          \* the balance of the vault token account
    shop_treasury,  \* the balance of the shop treasury token account
    user_usdc,      \* the balance of each user's token account
    provider_usdc,  \* the balance of the yield provider's token account
    last            \* the last instruction processed: its inputs and outcome

vars == <<game_state, user_position, vault, shop_treasury, user_usdc, provider_usdc, last>>

ledger == <<game_state, user_position, vault, shop_treasury, user_usdc, provider_usdc>>

(***************************************************************************)
(* Checked arithmetic: None when the result leaves 0..MaxU64 (the code     *)
(* unwraps the result, which then panics and aborts the transaction).      *)
(***************************************************************************)
checked_add(a, b) == IF a + b > MaxU64 THEN None ELSE a + b
checked_sub(a, b) == IF a - b < 0 THEN None ELSE a - b

\* The record of an instruction that failed: nothing it did persists.
Failed(op, user, amount, err) ==
    [op |-> op, user |-> user, amount |-> amount, result |-> err,
     final_yield |-> None, pipeline |-> FALSE, transfers |-> <<>>]

\* The record of an instruction that committed.
Done(op, user, amount, transfers) ==
    [op |-> op, user |-> user, amount |-> amount, result |-> "Ok",
     final_yield |-> None, pipeline |-> FALSE, transfers |-> transfers]

Transfer(from, to, amount) == [from |-> from, to |-> to, amount |-> amount]

\* initialize_game and init_vault have run; no user is registered; the token
\* account of user u holds funds[u] and the provider's holds provider.  (The
\* fields no instruction reads are left out: admin, the epoch timestamps,
\* owner, last_deposit_epoch, and the factions' id and name.)
InitWith(funds, provider) ==
    /\ game_state = [epoch_number |-> 1, total_tvl |-> 0, status |-> "Active",
                     factions |-> [f \in Factions |-> [tvl |-> 0, score |-> 0]]]
    /\ user_position = [u \in Users |-> NoPosition]
    /\ vault = 0
    /\ shop_treasury = 0
    /\ user_usdc = funds
    /\ provider_usdc = provider
    /\ last = Done("initialize_game", Admin, 0, <<>>)

Init == InitWith([u \in Users |-> LedgerFunds], LedgerFunds)

Abort(rec) == last' = rec /\ UNCHANGED ledger

\* register_user accepting a faction id of 3.
register_user_range_off_by_one(u, faction_id) ==
    IF user_position[u].registered
    THEN Abort(Failed("register_user", u, faction_id, "AccountAlreadyInUse"))
    ELSE IF ~(faction_id <= NumFactions)
    THEN Abort(Failed("register_user", u, faction_id, "InvalidFaction"))
    ELSE /\ user_position' = [user_position EXCEPT ![u] =
                [registered |-> TRUE,
                 faction_id |-> faction_id,
                 deposited_amount |-> 0,
                 automation_settings |-> [priority_slot_1 |-> DefaultRule,
                                          priority_slot_2 |-> DefaultRule,
                                          fallback_action |-> AutoCompound],
                 inventory |-> DefaultInventory]]
         /\ last' = Done("register_user", u, faction_id, <<>>)
         /\ UNCHANGED <<game_state, vault, shop_treasury, user_usdc, provider_usdc>>

register_user(u, faction_id) ==
    IF user_position[u].registered
    THEN Abort(Failed("register_user", u, faction_id, "AccountAlreadyInUse"))
    ELSE IF ~(faction_id < NumFactions)
    THEN Abort(Failed("register_user", u, faction_id, "InvalidFaction"))
    ELSE /\ user_position' = [user_position EXCEPT ![u] =
                [registered |-> TRUE,
                 faction_id |-> faction_id,
                 deposited_amount |-> 0,
                 automation_settings |-> [priority_slot_1 |-> DefaultRule,
                                          priority_slot_2 |-> DefaultRule,
                                          fallback_action |-> AutoCompound],
                 inventory |-> DefaultInventory]]
         /\ last' = Done("register_user", u, faction_id, <<>>)
         /\ UNCHANGED <<game_state, vault, shop_treasury, user_usdc, provider_usdc>>

deposit(u, amount) ==
    IF ~user_position[u].registered
    THEN Abort(Failed("deposit", u, amount, "AccountNotInitialized"))
    ELSE IF user_usdc[u] < amount
    THEN Abort(Failed("deposit", u, amount, "TransferFailure"))
    ELSE LET pos == user_position[u]
             f   == pos.faction_id
             dep == checked_add(pos.deposited_amount, amount)
             tot == checked_add(game_state.total_tvl, amount)
             tvl == checked_add(game_state.factions[f].tvl, amount)
         IN  IF dep = None \/ tot = None \/ tvl = None
             THEN Abort(Failed("deposit", u, amount, "Panic"))
             ELSE /\ user_usdc' = [user_usdc EXCEPT ![u] = @ - amount]
                  /\ vault' = vault + amount
                  /\ user_position' = [user_position EXCEPT ![u].deposited_amount = dep]
                  /\ game_state' = [game_state EXCEPT
                         !.total_tvl = tot, !.factions[f].tvl = tvl]
                  /\ last' = Done("deposit", u, amount, <<Transfer(u, "vault", amount)>>)
                  /\ UNCHANGED <<shop_treasury, provider_usdc>>

\* withdraw_allowed letting one unit more than the deposit through.
withdraw_allowed_off_by_one(pos, amount) == pos.deposited_amount + 1 >= amount

\* The require at the head of withdraw.
withdraw_allowed(pos, amount) == pos.deposited_amount >= amount

\* withdraw_tvl with the faction's tvl left as it was.
withdraw_tvl_total_only(gs, f, amount) ==
    [total_tvl |-> checked_sub(gs.total_tvl, amount), tvl |-> gs.factions[f].tvl]

\* The totals withdraw writes back: total_tvl and the faction's tvl.
withdraw_tvl(gs, f, amount) ==
    [total_tvl |-> checked_sub(gs.total_tvl, amount),
     tvl |-> checked_sub(gs.factions[f].tvl, amount)]

withdraw(u, amount) ==
    IF ~user_position[u].registered
    THEN Abort(Failed("withdraw", u, amount, "AccountNotInitialized"))
    ELSE IF ~withdraw_allowed(user_position[u], amount)
    THEN Abort(Failed("withdraw", u, amount, "InsufficientFunds"))
    ELSE IF vault < amount
    THEN Abort(Failed("withdraw", u, amount, "TransferFailure"))
    ELSE LET pos == user_position[u]
             f   == pos.faction_id
             dep == checked_sub(pos.deposited_amount, amount)
             upd == withdraw_tvl(game_state, f, amount)
         IN  IF dep = None \/ upd.total_tvl = None \/ upd.tvl = None
             THEN Abort(Failed("withdraw", u, amount, "Panic"))
             ELSE /\ vault' = vault - amount
                  /\ user_usdc' = [user_usdc EXCEPT ![u] = @ + amount]
                  /\ user_position' = [user_position EXCEPT ![u].deposited_amount = dep]
                  /\ game_state' = [game_state EXCEPT
                         !.total_tvl = upd.total_tvl, !.factions[f].tvl = upd.tvl]
                  /\ last' = Done("withdraw", u, amount, <<Transfer("vault", u, amount)>>)
                  /\ UNCHANGED <<shop_treasury, provider_usdc>>

update_automation(u, slot_1, slot_2, fallback) ==
    IF ~user_position[u].registered
    THEN Abort(Failed("update_automation", u, 0, "AccountNotInitialized"))
    ELSE /\ user_position' = [user_position EXCEPT ![u].automation_settings =
                [priority_slot_1 |-> slot_1, priority_slot_2 |-> slot_2,
                 fallback_action |-> fallback]]
         /\ last' = Done("update_automation", u, 0, <<>>)
         /\ UNCHANGED <<game_state, vault, shop_treasury, user_usdc, provider_usdc>>

\* FactionScores with each faction scored by its target's share alone.
FactionScores_target_only(gs) ==
    LET total_tvl == U64ToF64(gs.total_tvl)
        tvl_0 == U64ToF64(gs.factions[0].tvl)
        tvl_1 == U64ToF64(gs.factions[1].tvl)
        tvl_2 == U64ToF64(gs.factions[2].tvl)
        pct_0 == F64Div(tvl_0, total_tvl)
        pct_1 == F64Div(tvl_1, total_tvl)
        pct_2 == F64Div(tvl_2, total_tvl)
    IN  <<F64ToI64(F64MulSmall(pct_2, ScoreScale)),
          F64ToI64(F64MulSmall(pct_0, ScoreScale)),
          F64ToI64(F64MulSmall(pct_1, ScoreScale))>>

\* FactionScores with faction 2 scored against the wrong predator.
FactionScores_wrong_predator(gs) ==
    LET total_tvl == U64ToF64(gs.total_tvl)
        tvl_0 == U64ToF64(gs.factions[0].tvl)
        tvl_1 == U64ToF64(gs.factions[1].tvl)
        tvl_2 == U64ToF64(gs.factions[2].tvl)
        pct_0 == F64Div(tvl_0, total_tvl)
        pct_1 == F64Div(tvl_1, total_tvl)
        pct_2 == F64Div(tvl_2, total_tvl)
        score_0 == F64Sub(pct_2, pct_1)
        score_1 == F64Sub(pct_0, pct_2)
        score_2 == F64Sub(pct_1, pct_2)
    IN  <<F64ToI64(F64MulSmall(score_0, ScoreScale)),
          F64ToI64(F64MulSmall(score_1, ScoreScale)),
          F64ToI64(F64MulSmall(score_2, ScoreScale))>>

\* The scores resolve_epoch stores for a game state with total_tvl > 0: the
\* shares and their differences are f64, scaled by 10000.0 and cast to i64.
FactionScores(gs) ==
    LET total_tvl == U64ToF64(gs.total_tvl)
        tvl_0 == U64ToF64(gs.factions[0].tvl)
        tvl_1 == U64ToF64(gs.factions[1].tvl)
        tvl_2 == U64ToF64(gs.factions[2].tvl)
        pct_0 == F64Div(tvl_0, total_tvl)
        pct_1 == F64Div(tvl_1, total_tvl)
        pct_2 == F64Div(tvl_2, total_tvl)
        score_0 == F64Sub(pct_2, pct_1)
        score_1 == F64Sub(pct_0, pct_2)
        score_2 == F64Sub(pct_1, pct_0)
    IN  <<F64ToI64(F64MulSmall(score_0, ScoreScale)),
          F64ToI64(F64MulSmall(score_1, ScoreScale)),
          F64ToI64(F64MulSmall(score_2, ScoreScale))>>

resolve_epoch(signer) ==
    IF signer # Admin
    THEN Abort(Failed("resolve_epoch", signer, 0, "ConstraintAddress"))
    ELSE /\ IF game_state.total_tvl = 0
            THEN game_state' = [game_state EXCEPT !.status = "Settlement"]
            ELSE \E sc \in {FactionScores(game_state)} :
                     game_state' = [game_state EXCEPT
                         !.status = "Settlement",
                         !.factions = [f \in Factions |->
                                          [@[f] EXCEPT !.score = sc[f + 1]]]]
         /\ last' = Done("resolve_epoch", signer, 0, <<>>)
         /\ UNCHANGED <<user_position, vault, shop_treasury, user_usdc, provider_usdc>>

\* The loop of start_new_epoch over the factions, with the reset left out.
reset_scores_skipped(factions) == factions

\* reset_scores clearing each faction's tvl along with its score.
reset_scores_and_tvl(factions) == [f \in Factions |-> [tvl |-> 0, score |-> 0]]

\* The loop of start_new_epoch over the factions: every score back to 0.
reset_scores(factions) == [f \in Factions |-> [factions[f] EXCEPT !.score = 0]]

start_new_epoch(signer) ==
    IF signer # Admin
    THEN Abort(Failed("start_new_epoch", signer, 0, "ConstraintAddress"))
    ELSE /\ game_state.epoch_number < MaxEpoch
         /\ game_state' = [game_state EXCEPT
                !.epoch_number = @ + 1,
                !.status = "Active",
                !.factions = reset_scores(@)]
         /\ last' = Done("start_new_epoch", signer, 0, <<>>)
         /\ UNCHANGED <<user_position, vault, shop_treasury, user_usdc, provider_usdc>>

\* inject_yield booking the injected tokens as total_tvl.
inject_yield_counted_as_tvl(amount) ==
    IF provider_usdc < amount
    THEN Abort(Failed("inject_yield", "provider", amount, "TransferFailure"))
    ELSE /\ provider_usdc' = provider_usdc - amount
         /\ vault' = vault + amount
         /\ game_state' = [game_state EXCEPT !.total_tvl = checked_add(@, amount)]
         /\ last' = Done("inject_yield", "provider", amount,
                         <<Transfer("provider", "vault", amount)>>)
         /\ UNCHANGED <<user_position, shop_treasury, user_usdc>>

inject_yield(amount) ==
    IF provider_usdc < amount
    THEN Abort(Failed("inject_yield", "provider", amount, "TransferFailure"))
    ELSE /\ provider_usdc' = provider_usdc - amount
         /\ vault' = vault + amount
         /\ last' = Done("inject_yield", "provider", amount,
                         <<Transfer("provider", "vault", amount)>>)
         /\ UNCHANGED <<game_state, user_position, shop_treasury, user_usdc>>

get_item_price(id) ==
    CASE id = 1 -> SwordPrice
      [] id = 2 -> ShieldPrice
      [] id = 3 -> SpyglassPrice
      [] OTHER  -> 0

\* apply_buffs with the shield left in the inventory when it pays out.
apply_buffs_shield_kept(faction_score, inventory, yield_amount) ==
    IF faction_score <= 0
    THEN IF inventory.shield_count > 0
         THEN [total_loss |-> FALSE,
               final_yield |-> InsurancePayout,
               inventory |-> inventory]
         ELSE [total_loss |-> TRUE, final_yield |-> yield_amount, inventory |-> inventory]
    ELSE IF inventory.sword_count > 0
         THEN [total_loss |-> FALSE,
               final_yield |-> checked_add(yield_amount, yield_amount \div BoostDivisor),
               inventory |-> inventory]
         ELSE [total_loss |-> FALSE, final_yield |-> yield_amount, inventory |-> inventory]

\* apply_buffs with a score of 0 counted as a win.
apply_buffs_tie_wins(faction_score, inventory, yield_amount) ==
    IF faction_score < 0
    THEN IF inventory.shield_count > 0
         THEN [total_loss |-> FALSE,
               final_yield |-> InsurancePayout,
               inventory |-> [inventory EXCEPT !.shield_count = checked_sub(@, 1)]]
         ELSE [total_loss |-> TRUE, final_yield |-> yield_amount, inventory |-> inventory]
    ELSE IF inventory.sword_count > 0
         THEN [total_loss |-> FALSE,
               final_yield |-> checked_add(yield_amount, yield_amount \div BoostDivisor),
               inventory |-> inventory]
         ELSE [total_loss |-> FALSE, final_yield |-> yield_amount, inventory |-> inventory]

\* apply_buffs with the boost burning a sword, as the payout burns a shield.
apply_buffs_sword_burnt(faction_score, inventory, yield_amount) ==
    IF faction_score <= 0
    THEN IF inventory.shield_count > 0
         THEN [total_loss |-> FALSE,
               final_yield |-> InsurancePayout,
               inventory |-> [inventory EXCEPT !.shield_count = checked_sub(@, 1)]]
         ELSE [total_loss |-> TRUE, final_yield |-> yield_amount, inventory |-> inventory]
    ELSE IF inventory.sword_count > 0
         THEN [total_loss |-> FALSE,
               final_yield |-> checked_add(yield_amount, yield_amount \div BoostDivisor),
               inventory |-> [inventory EXCEPT !.sword_count = checked_sub(@, 1)]]
         ELSE [total_loss |-> FALSE, final_yield |-> yield_amount, inventory |-> inventory]

\* apply_buffs paying the insurance to every losing user, shield or not.
apply_buffs_payout_without_shield(faction_score, inventory, yield_amount) ==
    IF faction_score <= 0
    THEN [total_loss |-> FALSE,
          final_yield |-> InsurancePayout,
          inventory |-> IF inventory.shield_count > 0
                        THEN [inventory EXCEPT !.shield_count = checked_sub(@, 1)]
                        ELSE inventory]
    ELSE IF inventory.sword_count > 0
         THEN [total_loss |-> FALSE,
               final_yield |-> checked_add(yield_amount, yield_amount \div BoostDivisor),
               inventory |-> inventory]
         ELSE [total_loss |-> FALSE, final_yield |-> yield_amount, inventory |-> inventory]

\* apply_buffs burning a shield of a winning user too.
apply_buffs_shield_burnt_on_win(faction_score, inventory, yield_amount) ==
    LET burnt == IF inventory.shield_count > 0
                 THEN [inventory EXCEPT !.shield_count = checked_sub(@, 1)]
                 ELSE inventory
    IN  IF faction_score <= 0
        THEN IF inventory.shield_count > 0
             THEN [total_loss |-> FALSE, final_yield |-> InsurancePayout,
                   inventory |-> burnt]
             ELSE [total_loss |-> TRUE, final_yield |-> yield_amount,
                   inventory |-> inventory]
        ELSE IF inventory.sword_count > 0
             THEN [total_loss |-> FALSE,
                   final_yield |-> checked_add(yield_amount, yield_amount \div BoostDivisor),
                   inventory |-> burnt]
             ELSE [total_loss |-> FALSE, final_yield |-> yield_amount,
                   inventory |-> burnt]

\* apply_buffs treating a settlement that directly follows a settlement with an
\* effect as a total loss.
apply_buffs_once(faction_score, inventory, yield_amount) ==
    IF last.op = "execute_settlement" /\ last.result = "Ok" /\ last.final_yield # None
    THEN [total_loss |-> TRUE, final_yield |-> yield_amount, inventory |-> inventory]
    ELSE IF faction_score <= 0
    THEN IF inventory.shield_count > 0
         THEN [total_loss |-> FALSE,
               final_yield |-> InsurancePayout,
               inventory |-> [inventory EXCEPT !.shield_count = checked_sub(@, 1)]]
         ELSE [total_loss |-> TRUE, final_yield |-> yield_amount, inventory |-> inventory]
    ELSE IF inventory.sword_count > 0
         THEN [total_loss |-> FALSE,
               final_yield |-> checked_add(yield_amount, yield_amount \div BoostDivisor),
               inventory |-> inventory]
         ELSE [total_loss |-> FALSE, final_yield |-> yield_amount, inventory |-> inventory]

\* Logic A of execute_settlement, the buffs: whether the call returns at once
\* (total loss), the yield the pipeline starts with (None when the boost
\* overflows) and the inventory after a shield was burnt.
apply_buffs(faction_score, inventory, yield_amount) ==
    IF faction_score <= 0
    THEN IF inventory.shield_count > 0
         THEN [total_loss |-> FALSE,
               final_yield |-> InsurancePayout,
               inventory |-> [inventory EXCEPT !.shield_count = checked_sub(@, 1)]]
         ELSE [total_loss |-> TRUE, final_yield |-> yield_amount, inventory |-> inventory]
    ELSE IF inventory.sword_count > 0
         THEN [total_loss |-> FALSE,
               final_yield |-> checked_add(yield_amount, yield_amount \div BoostDivisor),
               inventory |-> inventory]
         ELSE [total_loss |-> FALSE, final_yield |-> yield_amount, inventory |-> inventory]

\* process_rule buying an item the budget cannot pay in full with what is left
\* of the budget.
process_rule_partial_purchase(rule, st) ==
    IF st.err # "" THEN st
    ELSE IF rule.item_id = 0 THEN st
    ELSE IF st.budget < rule.threshold THEN st
    ELSE LET price == get_item_price(rule.item_id)
             paid == IF st.budget < price THEN st.budget ELSE price
         IN  IF price = 0 THEN st
             ELSE LET inv == st.inventory
                      cnt == CASE rule.item_id = 1 -> checked_add(inv.sword_count, 1)
                               [] rule.item_id = 2 -> checked_add(inv.shield_count, 1)
                               [] rule.item_id = 3 -> checked_add(inv.spyglass_count, 1)
                               [] OTHER -> 0
                      inv2 == CASE rule.item_id = 1 -> [inv EXCEPT !.sword_count = cnt]
                                [] rule.item_id = 2 -> [inv EXCEPT !.shield_count = cnt]
                                [] rule.item_id = 3 -> [inv EXCEPT !.spyglass_count = cnt]
                                [] OTHER -> inv
                  IN  IF cnt = None THEN [st EXCEPT !.err = "Panic"]
                      ELSE IF st.vault < paid THEN [st EXCEPT !.err = "TransferFailure"]
                      ELSE [err |-> "",
                            budget |-> checked_sub(st.budget, paid),
                            inventory |-> inv2,
                            vault |-> st.vault - paid,
                            transfers |-> Append(st.transfers,
                                                 Transfer("vault", "shop_treasury", paid))]

\* process_rule skipping the slot, as if the item were unaffordable, when the
\* vault cannot pay the shop.
process_rule_skip_on_rejected_transfer(rule, st) ==
    IF st.err # "" THEN st
    ELSE IF rule.item_id = 0 THEN st
    ELSE IF st.budget < rule.threshold THEN st
    ELSE LET price == get_item_price(rule.item_id)
         IN  IF price = 0 \/ st.budget < price THEN st
             ELSE LET inv == st.inventory
                      cnt == CASE rule.item_id = 1 -> checked_add(inv.sword_count, 1)
                               [] rule.item_id = 2 -> checked_add(inv.shield_count, 1)
                               [] rule.item_id = 3 -> checked_add(inv.spyglass_count, 1)
                               [] OTHER -> 0
                      inv2 == CASE rule.item_id = 1 -> [inv EXCEPT !.sword_count = cnt]
                                [] rule.item_id = 2 -> [inv EXCEPT !.shield_count = cnt]
                                [] rule.item_id = 3 -> [inv EXCEPT !.spyglass_count = cnt]
                                [] OTHER -> inv
                  IN  IF cnt = None THEN [st EXCEPT !.err = "Panic"]
                      ELSE IF st.vault < price THEN st
                      ELSE [err |-> "",
                            budget |-> checked_sub(st.budget, price),
                            inventory |-> inv2,
                            vault |-> st.vault - price,
                            transfers |-> Append(st.transfers,
                                                 Transfer("vault", "shop_treasury", price))]

\* The closure process_rule: st is [err, budget, inventory, vault, transfers],
\* the budget and inventory it mutates, the vault balance its transfer draws on
\* and the transfers made so far; err is "" until a step fails.
process_rule(rule, st) ==
    IF st.err # "" THEN st
    ELSE IF rule.item_id = 0 THEN st
    ELSE IF st.budget < rule.threshold THEN st
    ELSE LET price == get_item_price(rule.item_id)
         IN  IF price = 0 \/ st.budget < price THEN st
             ELSE LET inv == st.inventory
                      cnt == CASE rule.item_id = 1 -> checked_add(inv.sword_count, 1)
                               [] rule.item_id = 2 -> checked_add(inv.shield_count, 1)
                               [] rule.item_id = 3 -> checked_add(inv.spyglass_count, 1)
                               [] OTHER -> 0
                      inv2 == CASE rule.item_id = 1 -> [inv EXCEPT !.sword_count = cnt]
                                [] rule.item_id = 2 -> [inv EXCEPT !.shield_count = cnt]
                                [] rule.item_id = 3 -> [inv EXCEPT !.spyglass_count = cnt]
                                [] OTHER -> inv
                  IN  IF cnt = None THEN [st EXCEPT !.err = "Panic"]
                      ELSE IF st.vault < price THEN [st EXCEPT !.err = "TransferFailure"]
                      ELSE [err |-> "",
                            budget |-> checked_sub(st.budget, price),
                            inventory |-> inv2,
                            vault |-> st.vault - price,
                            transfers |-> Append(st.transfers,
                                                 Transfer("vault", "shop_treasury", price))]

\* run_slots with the two slots processed in the opposite order.
run_slots_slot_2_first(settings, st) ==
    process_rule(settings.priority_slot_1, process_rule(settings.priority_slot_2, st))

\* Logic B of execute_settlement: slot 1, then slot 2 on what slot 1 left.
run_slots(settings, st) ==
    process_rule(settings.priority_slot_2, process_rule(settings.priority_slot_1, st))

\* execute_settlement for the position of user u, with the token account of
\* user dest passed as user_usdc.
execute_settlement(u, yield_amount, dest) ==
    IF ~user_position[u].registered
    THEN Abort(Failed("execute_settlement", u, yield_amount, "AccountNotInitialized"))
    ELSE
    LET pos  == user_position[u]
        f    == pos.faction_id
        buff == apply_buffs(game_state.factions[f].score, pos.inventory, yield_amount)
        rec(fy, pl, tr) == [op |-> "execute_settlement", user |-> u,
                            amount |-> yield_amount, result |-> "Ok",
                            final_yield |-> fy, pipeline |-> pl, transfers |-> tr]
    IN
    IF buff.total_loss
    THEN /\ last' = rec(None, FALSE, <<>>)
         /\ UNCHANGED ledger
    ELSE IF buff.final_yield = None
    THEN Abort(Failed("execute_settlement", u, yield_amount, "Panic"))
    ELSE IF buff.final_yield = 0
    THEN /\ user_position' = [user_position EXCEPT ![u].inventory = buff.inventory]
         /\ last' = rec(0, FALSE, <<>>)
         /\ UNCHANGED <<game_state, vault, shop_treasury, user_usdc, provider_usdc>>
    ELSE
    LET st == run_slots(pos.automation_settings,
                        [err |-> "", budget |-> buff.final_yield,
                         inventory |-> buff.inventory, vault |-> vault,
                         transfers |-> <<>>])
        remaining_yield == st.budget
        fallback == pos.automation_settings.fallback_action
        dep == checked_add(pos.deposited_amount, remaining_yield)
        tot == checked_add(game_state.total_tvl, remaining_yield)
        tvl == checked_add(game_state.factions[f].tvl, remaining_yield)
        spent == buff.final_yield - remaining_yield
    IN
    IF st.err # ""
    THEN Abort(Failed("execute_settlement", u, yield_amount, st.err))
    ELSE IF remaining_yield > 0 /\ fallback = SendToWallet
    THEN IF st.vault < remaining_yield
         THEN Abort(Failed("execute_settlement", u, yield_amount, "TransferFailure"))
         ELSE /\ user_position' = [user_position EXCEPT ![u].inventory = st.inventory]
              /\ vault' = st.vault - remaining_yield
              /\ shop_treasury' = shop_treasury + spent
              /\ user_usdc' = [user_usdc EXCEPT ![dest] = @ + remaining_yield]
              /\ last' = rec(buff.final_yield, TRUE,
                             Append(st.transfers, Transfer("vault", dest, remaining_yield)))
              /\ UNCHANGED <<game_state, provider_usdc>>
    ELSE IF remaining_yield > 0
    THEN IF dep = None \/ tot = None \/ tvl = None
         THEN Abort(Failed("execute_settlement", u, yield_amount, "Panic"))
         ELSE /\ user_position' = [user_position EXCEPT
                     ![u].inventory = st.inventory,
                     ![u].deposited_amount = dep]
              /\ game_state' = [game_state EXCEPT
                     !.total_tvl = tot, !.factions[f].tvl = tvl]
              /\ vault' = st.vault
              /\ shop_treasury' = shop_treasury + spent
              /\ last' = rec(buff.final_yield, TRUE, st.transfers)
              /\ UNCHANGED <<user_usdc, provider_usdc>>
    ELSE /\ user_position' = [user_position EXCEPT ![u].inventory = st.inventory]
         /\ vault' = st.vault
         /\ shop_treasury' = shop_treasury + spent
         /\ last' = rec(buff.final_yield, TRUE, st.transfers)
         /\ UNCHANGED <<game_state, user_usdc, provider_usdc>>

(***************************************************************************)
(* The ledger specification: registration, deposits and withdrawals in     *)
(* small steps, the epoch cycle with its scoring, and settlement with the  *)
(* slots left empty.                                                       *)
(***************************************************************************)
\* register_user: u1 asks for faction 1, u2 for faction 0 or 2, and each may
\* ask for an id out of range.
FactionChoices(u) == IF u = "u1" THEN {1, NumFactions} ELSE {0, 2, NumFactions}

DepositAmounts == {2000000, 3000000}

\* withdraw: the whole balance and one more than it.
WithdrawAmounts(u) ==
    IF user_position[u].registered
    THEN {user_position[u].deposited_amount, user_position[u].deposited_amount + 1}
    ELSE {1}

YieldAmounts == {0, 12000000}

Rule(id, th) == [item_id |-> id, threshold |-> th]

\* update_automation: <<slot_1, slot_2, fallback>>.
AutomationChoices == { <<DefaultRule, DefaultRule, SendToWallet>> }

\* Who signs resolve_epoch and start_new_epoch.
Callers == {Admin, "u1"}

Next ==
    \/ \E u \in Users : \E f \in FactionChoices(u) : register_user(u, f)
    \/ \E u \in Users, a \in DepositAmounts : deposit(u, a)
    \/ \E u \in Users : \E a \in WithdrawAmounts(u) : withdraw(u, a)
    \/ \E u \in Users, c \in AutomationChoices : update_automation(u, c[1], c[2], c[3])
    \/ \E s \in Callers : resolve_epoch(s)
    \/ \E s \in Callers : start_new_epoch(s)
    \/ inject_yield(LedgerFunds)
    \/ \E u \in Users, y \in YieldAmounts : execute_settlement(u, y, u)

Spec == Init /\ [][Next]_vars

(***************************************************************************)
(* The settlement specification: one large deposit, a yield injection of   *)
(* the same size, and settlement with purchase rules and several yields.   *)
(***************************************************************************)
\* u2 holds the tokens; u1 holds none and gains only by settlement.
InitSettle ==
    InitWith([u \in Users |-> IF u = "u2" THEN SettleFunds ELSE 0], SettleProviderFunds)

\* u1 joins faction 1 and u2 faction 0: once u2 has deposited, faction 1 wins.
SettleFactionChoices(u) == IF u = "u1" THEN {1} ELSE {0}

\* withdraw: the whole balance.
SettleWithdrawAmounts(u) ==
    IF user_position[u].registered THEN {user_position[u].deposited_amount} ELSE {1}

SettleYieldAmounts == {0, 9999999, 12000000}

\* update_automation: u1 chooses among three settings, u2 has one.
SettleAutomationChoices(u) ==
    IF u = "u1"
    THEN { <<DefaultRule, DefaultRule, AutoCompound>>,
           <<Rule(1, 5000000), Rule(2, 0), AutoCompound>>,
           <<Rule(1, 1000000), Rule(4, 0), SendToWallet>> }
    ELSE { <<Rule(1, 5000000), Rule(2, 0), AutoCompound>> }

NextSettle ==
    \/ \E u \in Users : \E f \in SettleFactionChoices(u) : register_user(u, f)
    \/ \E u \in Users : deposit(u, SettleFunds)
    \/ \E u \in Users : \E a \in SettleWithdrawAmounts(u) : withdraw(u, a)
    \/ \E u \in Users : \E c \in SettleAutomationChoices(u) : update_automation(u, c[1], c[2], c[3])
    \/ resolve_epoch(Admin)
    \/ start_new_epoch(Admin)
    \/ inject_yield(SettleProviderFunds)
    \/ \E u \in Users, y \in SettleYieldAmounts : execute_settlement(u, y, u)

SpecSettle == InitSettle /\ [][NextSettle]_vars

(***************************************************************************)
(* The open specification: the settlement specification with two yields,   *)
(* a rule for each of the three items, either user's token account passed  *)
(* to a settlement as the wallet, and the calls that fail: a faction id    *)
(* out of range and a withdraw of more than the deposit.                   *)
(***************************************************************************)
OpenFactionChoices(u) == SettleFactionChoices(u) \cup {NumFactions}

OpenYieldAmounts == {0, 12000000}

\* update_automation: three settings with purchase rules, one per item.
OpenAutomationChoices ==
    { <<Rule(1, 5000000), Rule(2, 0), AutoCompound>>,
      <<Rule(1, 1000000), Rule(4, 0), SendToWallet>>,
      <<Rule(3, 0), Rule(3, 0), SendToWallet>> }

NextOpen ==
    \/ \E u \in Users : \E f \in OpenFactionChoices(u) : register_user(u, f)
    \/ \E u \in Users : deposit(u, SettleFunds)
    \/ \E u \in Users : \E a \in WithdrawAmounts(u) : withdraw(u, a)
    \/ \E c \in OpenAutomationChoices : update_automation("u1", c[1], c[2], c[3])
    \/ resolve_epoch(Admin)
    \/ start_new_epoch(Admin)
    \/ inject_yield(SettleProviderFunds)
    \/ \E u \in Users, y \in OpenYieldAmounts, d \in Users : execute_settlement(u, y, d)

SpecOpen == InitSettle /\ [][NextOpen]_vars

(***************************************************************************)
(* The repeat specification: a small deposit and a small yield, so that a  *)
(* position can be settled and compounded several times in one epoch       *)
(* before a counter overflows.                                             *)
(***************************************************************************)
\* u2 holds the tokens of one deposit; u1 holds none.
InitRepeat ==
    InitWith([u \in Users |-> IF u = "u2" THEN LedgerFunds ELSE 0], SettleProviderFunds)

RepeatYieldAmounts == {6000000}

\* update_automation: both slots empty, or a shield in each.
RepeatAutomationChoices ==
    { <<DefaultRule, DefaultRule, AutoCompound>>,
      <<Rule(2, 0), Rule(2, 0), AutoCompound>> }

NextRepeat ==
    \/ \E u \in Users : \E f \in SettleFactionChoices(u) : register_user(u, f)
    \/ deposit("u2", LedgerFunds)
    \/ \E a \in SettleWithdrawAmounts("u2") : withdraw("u2", a)
    \/ \E c \in RepeatAutomationChoices : update_automation("u1", c[1], c[2], c[3])
    \/ resolve_epoch(Admin)
    \/ start_new_epoch(Admin)
    \/ inject_yield(SettleProviderFunds)
    \/ \E u \in Users, y \in RepeatYieldAmounts : execute_settlement(u, y, u)

SpecRepeat == InitRepeat /\ [][NextRepeat]_vars

(***************************************************************************)
(* Properties.                                                             *)
(***************************************************************************)
Deposited(u) ==
    IF user_position[u].registered THEN user_position[u].deposited_amount ELSE 0

RECURSIVE SumDeposits(_)
SumDeposits(S) ==
    IF S = {} THEN 0
    ELSE LET u == CHOOSE x \in S : TRUE IN Deposited(u) + SumDeposits(S \ {u})

Score(f) == game_state.factions[f].score
Tvl(f) == game_state.factions[f].tvl
ScoreSum == Score(0) + Score(1) + Score(2)
Abs(n) == IF n < 0 THEN 0 - n ELSE n

\* The step is the instruction op, processed for user u.
Step(op, u) == last'.op = op /\ last'.user = u

\* C1. Conservation: after every committed instruction, total_tvl equals the
\* sum of the three faction tvl values and the sum of deposited_amount over
\* the registered users.
C1_Conservation ==
    /\ game_state.total_tvl = Tvl(0) + Tvl(1) + Tvl(2)
    /\ game_state.total_tvl = SumDeposits(Users)

\* A settlement has compounded its yield into a deposit that was already there.
C1_Witness ==
    /\ last.op = "execute_settlement" /\ last.result = "Ok" /\ last.pipeline
    /\ last.transfers = <<>>
    /\ Deposited(last.user) > last.final_yield
    /\ \E u \in Users : u # last.user /\ Deposited(u) > 0

\* C2. Pool solvency: the vault holds at least total_tvl in every reachable
\* state.
C2_PoolSolvent == vault >= game_state.total_tvl

\* C3 as claimed: the three scores sum to exactly 0 whenever total_tvl > 0.
C3_ZeroSumExact == game_state.total_tvl > 0 => ScoreSum = 0

\* C3 as amended: whenever total_tvl > 0 the three scores sum to 0 up to the
\* truncation of each score toward zero: the absolute value of the sum is at
\* most 2.
C3_ZeroSumTruncated == game_state.total_tvl > 0 => Abs(ScoreSum) <= 2

\* resolve_epoch has stored scores whose sum the truncation moved off 0.
C3_Witness ==
    /\ last.op = "resolve_epoch" /\ last.result = "Ok"
    /\ game_state.total_tvl > 0
    /\ ScoreSum # 0

\* C4 as claimed: all three scores are 0 whenever total_tvl is 0.
C4_ZeroTvlZeroScores ==
    game_state.total_tvl = 0 => \A f \in Factions : Score(f) = 0

\* C4 as amended: all three scores are 0 whenever the status is Active, whatever
\* total_tvl is, and a resolve_epoch that finds total_tvl at 0 leaves the scores
\* as they were; in status Settlement the scores of the last scoring
\* resolve_epoch stay, also when total_tvl has gone back to 0.
C4_ActiveZeroScores ==
    /\ [](game_state.status = "Active" => \A f \in Factions : Score(f) = 0)
    /\ [][(Step("resolve_epoch", Admin) /\ last'.result = "Ok"
              /\ game_state.total_tvl = 0)
           => \A f \in Factions : game_state'.factions[f].score = Score(f)]_vars

\* Every deposit has been withdrawn in an epoch opened after a scored one.
C4_Witness ==
    /\ game_state.status = "Active" /\ game_state.epoch_number > 1
    /\ game_state.total_tvl = 0
    /\ last.op = "withdraw" /\ last.result = "Ok" /\ last.amount > 0

\* C5. Whatever the status, a registered user's withdraw of exactly their
\* deposited_amount succeeds, leaves deposited_amount at 0 and takes the amount
\* off the faction's tvl and off total_tvl.
C5_WithdrawAll ==
    [][\A u \in Users :
          (/\ Step("withdraw", u)
           /\ user_position[u].registered
           /\ last'.amount = user_position[u].deposited_amount)
          => /\ last'.result = "Ok"
             /\ user_position'[u].deposited_amount = 0
             /\ game_state'.total_tvl = game_state.total_tvl - last'.amount
             /\ game_state'.factions[user_position[u].faction_id].tvl
                    = Tvl(user_position[u].faction_id) - last'.amount]_vars

\* C6. withdraw of more than deposited_amount fails with InsufficientFunds,
\* transfers nothing and leaves every balance as it was.
C6_WithdrawTooMuch ==
    [][\A u \in Users :
          (/\ Step("withdraw", u)
           /\ user_position[u].registered
           /\ last'.amount > user_position[u].deposited_amount)
          => /\ last'.result = "InsufficientFunds"
             /\ last'.transfers = <<>>
             /\ UNCHANGED ledger]_vars

\* A withdraw of deposited_amount + 1 from a funded position has failed while
\* the vault held enough to pay it.
C6_Witness ==
    /\ last.op = "withdraw" /\ last.result = "InsufficientFunds"
    /\ user_position[last.user].registered
    /\ user_position[last.user].deposited_amount > 0
    /\ last.amount = user_position[last.user].deposited_amount + 1
    /\ vault >= last.amount

(***************************************************************************)
(* Settlement.                                                             *)
(***************************************************************************)
Inventory(u) == user_position[u].inventory
Settings(u) == user_position[u].automation_settings
UserScore(u) == Score(user_position[u].faction_id)

\* The step is a settlement of user u's position that committed.
Settled(u) ==
    /\ user_position[u].registered
    /\ Step("execute_settlement", u)
    /\ last'.result = "Ok"

\* The slot buys a shield out of the insurance payout.
BuysShieldFromPayout(rule) ==
    rule.item_id = 2 /\ rule.threshold <= InsurancePayout

\* The number of purchases at the given price among the transfers.
RECURSIVE Purchases(_, _)
Purchases(transfers, price) ==
    IF transfers = <<>> THEN 0
    ELSE (IF Head(transfers).to = "shop_treasury" /\ Head(transfers).amount = price
          THEN 1 ELSE 0) + Purchases(Tail(transfers), price)

\* C7 as claimed: a settlement that commits for a user whose faction score is
\* <= 0 and who holds exactly 1 shield runs the pipeline on a budget of exactly
\* 2,000,000, whatever yield_amount is, and leaves shield_count at 0.
C7_ShieldConsumed ==
    [][\A u \in Users :
          (Settled(u) /\ UserScore(u) <= 0 /\ Inventory(u).shield_count = 1)
          => /\ last'.pipeline
             /\ last'.final_yield = InsurancePayout
             /\ user_position'[u].inventory.shield_count = 0]_vars

\* C7 as amended: such a settlement runs the pipeline on a budget of exactly
\* 2,000,000, whatever yield_amount is, and burns the shield; shield_count ends
\* at 0 unless one of the two slots names the shield with a threshold of at most
\* 2,000,000: then the pipeline spends the payout on a new shield and
\* shield_count ends at 1.
C7_ShieldConsumedOrRebought ==
    [][\A u \in Users :
          (Settled(u) /\ UserScore(u) <= 0 /\ Inventory(u).shield_count = 1)
          => /\ last'.pipeline
             /\ last'.final_yield = InsurancePayout
             /\ user_position'[u].inventory.shield_count =
                    (IF \/ BuysShieldFromPayout(Settings(u).priority_slot_1)
                        \/ BuysShieldFromPayout(Settings(u).priority_slot_2)
                     THEN 1 ELSE 0)
             /\ user_position'[u].inventory.shield_count =
                    Purchases(last'.transfers, ShieldPrice)]_vars

\* A losing user's only shield has paid out 2,000,000 on a settlement that
\* named another yield, and the payout went to the shop for a new shield.
C7_Witness ==
    /\ last.op = "execute_settlement" /\ last.result = "Ok" /\ last.pipeline
    /\ last.amount # InsurancePayout
    /\ last.final_yield = InsurancePayout
    /\ UserScore(last.user) <= 0
    /\ last.transfers = <<Transfer("vault", "shop_treasury", ShieldPrice)>>
    /\ Inventory(last.user).shield_count = 1

\* C8. Total loss: a settlement for a user whose faction score is <= 0 and who
\* holds no shield succeeds, transfers nothing and changes no user, faction,
\* inventory or global field, whatever yield_amount and the automation are.
C8_TotalLoss ==
    [][\A u \in Users :
          (/\ user_position[u].registered
           /\ Step("execute_settlement", u)
           /\ UserScore(u) <= 0
           /\ Inventory(u).shield_count = 0)
          => /\ last'.result = "Ok"
             /\ last'.transfers = <<>>
             /\ ~last'.pipeline
             /\ UNCHANGED ledger]_vars

\* A settlement that named a yield the vault could pay, for a user with
\* purchase rules set, a score <= 0 and no shield, has returned at once.
C8_Witness ==
    /\ last.op = "execute_settlement" /\ last.result = "Ok" /\ ~last.pipeline
    /\ last.amount > 0 /\ vault >= last.amount
    /\ UserScore(last.user) <= 0
    /\ Inventory(last.user).shield_count = 0
    /\ Settings(last.user).priority_slot_1.item_id # 0

\* C9. Sword boost: a settlement that commits with yield Y for a user whose
\* faction score is > 0 starts the pipeline with budget exactly Y + floor(Y/5)
\* when sword_count >= 1 and exactly Y when sword_count is 0, and the boost takes
\* no sword: sword_count changes only by the swords the pipeline buys.
C9_SwordBoost ==
    [][\A u \in Users :
          (Settled(u) /\ UserScore(u) > 0)
          => /\ last'.final_yield =
                    (IF Inventory(u).sword_count >= 1
                     THEN last'.amount + (last'.amount \div 5)
                     ELSE last'.amount)
             /\ last'.final_yield > 0 => last'.pipeline
             /\ user_position'[u].inventory.sword_count =
                    Inventory(u).sword_count + Purchases(last'.transfers, SwordPrice)]_vars

\* A winning user holding a sword has settled a yield of 9,999,999 and the
\* pipeline started with 11,999,998.
C9_Witness ==
    /\ last.op = "execute_settlement" /\ last.result = "Ok" /\ last.pipeline
    /\ last.amount = 9999999
    /\ last.final_yield = 11999998
    /\ UserScore(last.user) > 0
    /\ Inventory(last.user).sword_count >= 1
    /\ Purchases(last.transfers, SwordPrice) = 0

\* C10. Priority ordering: with slot 1 = {Sword, threshold 5,000,000}, slot 2 =
\* {Shield, threshold 0} and a starting budget of 12,000,000, a settlement that
\* commits transfers 10,000,000 and then 2,000,000 to the shop, adds one sword
\* and one shield, and leaves nothing to the fallback: no wallet transfer and
\* no compounding.
C10_PriorityOrdering ==
    [][\A u \in Users :
          (/\ Settled(u)
           /\ Settings(u).priority_slot_1 = Rule(1, 5000000)
           /\ Settings(u).priority_slot_2 = Rule(2, 0)
           /\ last'.final_yield = 12000000)
          => /\ last'.pipeline
             /\ last'.transfers = <<Transfer("vault", "shop_treasury", 10000000),
                                    Transfer("vault", "shop_treasury", 2000000)>>
             /\ user_position'[u].inventory =
                    [Inventory(u) EXCEPT !.sword_count = @ + 1, !.shield_count = @ + 1]
             /\ shop_treasury' = shop_treasury + 12000000
             /\ vault' = vault - 12000000
             /\ user_position'[u].deposited_amount = user_position[u].deposited_amount
             /\ UNCHANGED <<game_state, user_usdc>>]_vars

\* A settlement with these two slots and a budget of 12,000,000 has bought the
\* sword and then the shield.
C10_Witness ==
    /\ last.op = "execute_settlement" /\ last.result = "Ok" /\ last.pipeline
    /\ last.final_yield = 12000000
    /\ Settings(last.user).priority_slot_1 = Rule(1, 5000000)
    /\ Settings(last.user).priority_slot_2 = Rule(2, 0)
    /\ Len(last.transfers) = 2
    /\ Inventory(last.user).sword_count >= 1
    /\ Inventory(last.user).shield_count >= 1

\* The budget a settlement of yield_amount for user u gives the pipeline.
Budget(u, yield_amount) ==
    apply_buffs(UserScore(u), Inventory(u), yield_amount)

\* The slot cannot buy with budget B: its threshold is met but the price of its
\* item is above B, or its item id is 0 or outside 1..3.
NoPurchase(rule, B) ==
    \/ rule.item_id \notin 1..3
    \/ B >= rule.threshold /\ B < get_item_price(rule.item_id)

\* C11. No partial purchase: a settlement whose two slots each have the
\* threshold met but a price above the budget, or an item id that is 0 or
\* outside 1..3, skips both slots: nothing goes to the shop, no counter is
\* credited and the whole budget reaches the fallback.
C11_NoPartialPurchase ==
    [][\A u \in Users :
          (/\ user_position[u].registered
           /\ Step("execute_settlement", u)
           /\ ~Budget(u, last'.amount).total_loss
           /\ Budget(u, last'.amount).final_yield > 0
           /\ NoPurchase(Settings(u).priority_slot_1, Budget(u, last'.amount).final_yield)
           /\ NoPurchase(Settings(u).priority_slot_2, Budget(u, last'.amount).final_yield)
           /\ IF Settings(u).fallback_action = SendToWallet
              THEN vault >= Budget(u, last'.amount).final_yield
              ELSE game_state.total_tvl + Budget(u, last'.amount).final_yield <= MaxU64)
          => /\ last'.result = "Ok"
             /\ last'.final_yield = Budget(u, last'.amount).final_yield
             /\ shop_treasury' = shop_treasury
             /\ user_position'[u].inventory = Budget(u, last'.amount).inventory
             /\ IF Settings(u).fallback_action = SendToWallet
                THEN /\ Len(last'.transfers) = 1
                     /\ last'.transfers[1].from = "vault"
                     /\ last'.transfers[1].to # "shop_treasury"
                     /\ last'.transfers[1].amount = last'.final_yield
                     /\ vault' = vault - last'.final_yield
                ELSE /\ last'.transfers = <<>>
                     /\ vault' = vault
                     /\ user_position'[u].deposited_amount =
                            user_position[u].deposited_amount + last'.final_yield]_vars

\* A settlement with slot 1 = {Sword, threshold 1,000,000}, slot 2 naming item
\* 4 and a budget of 9,999,999 has sent the whole budget to the wallet.
C11_Witness ==
    /\ last.op = "execute_settlement" /\ last.result = "Ok" /\ last.pipeline
    /\ last.final_yield = 9999999
    /\ Settings(last.user).priority_slot_1 = Rule(1, 1000000)
    /\ Settings(last.user).priority_slot_2 = Rule(4, 0)
    /\ last.transfers = <<Transfer("vault", last.user, 9999999)>>
    /\ Inventory(last.user).sword_count = 0

\* C12. Settlement idempotent-on-zero: a settlement with yield_amount 0 for a
\* user holding no sword and no shield succeeds, transfers nothing and changes
\* no state, whatever the faction score, the status and the automation
\* settings are.
C12_ZeroYieldNoChange ==
    [][\A u \in Users :
          (/\ user_position[u].registered
           /\ Step("execute_settlement", u)
           /\ last'.amount = 0
           /\ Inventory(u).sword_count = 0
           /\ Inventory(u).shield_count = 0)
          => /\ last'.result = "Ok"
             /\ last'.transfers = <<>>
             /\ ~last'.pipeline
             /\ UNCHANGED ledger]_vars

\* A settlement with yield_amount 0 has returned for a user of the winning
\* faction who holds no item and has purchase rules set, in status Settlement,
\* with tokens in the vault.
C12_Witness ==
    /\ last.op = "execute_settlement" /\ last.result = "Ok" /\ last.amount = 0
    /\ last.final_yield = 0
    /\ game_state.status = "Settlement"
    /\ UserScore(last.user) > 0
    /\ Inventory(last.user) = DefaultInventory
    /\ Settings(last.user).priority_slot_1.item_id # 0
    /\ vault > 0

(***************************************************************************)
(* The epoch cycle.                                                        *)
(***************************************************************************)
\* C13. Epoch reset: after a start_new_epoch that commits, the three scores are
\* 0, the status is Active and epoch_number is one more than before, while
\* every faction's tvl, total_tvl and every user's deposited_amount, inventory
\* and automation settings are as they were.
C13_EpochReset ==
    [][(Step("start_new_epoch", Admin) /\ last'.result = "Ok")
       => /\ \A f \in Factions : game_state'.factions[f].score = 0
          /\ game_state'.status = "Active"
          /\ game_state'.epoch_number = game_state.epoch_number + 1
          /\ \A f \in Factions : game_state'.factions[f].tvl = Tvl(f)
          /\ game_state'.total_tvl = game_state.total_tvl
          /\ user_position' = user_position]_vars

\* start_new_epoch has opened epoch 2 over deposits of both users.
C13_Witness ==
    /\ last.op = "start_new_epoch" /\ last.result = "Ok"
    /\ game_state.epoch_number = 2
    /\ game_state.status = "Active"
    /\ \A u \in Users : Deposited(u) > 0
    /\ \E f \in Factions : Tvl(f) > 0 /\ Tvl(f) < game_state.total_tvl

\* C14. resolve_epoch is the transition Active -> Settlement: every
\* resolve_epoch that commits is signed by the administrator, is taken in
\* status Active and leaves status Settlement.
C14_CloseFromActive ==
    [][\A s \in Callers :
          (/\ last'.op = "resolve_epoch" /\ last'.user = s
           /\ last'.result = "Ok")
          => /\ s = Admin
             /\ game_state.status = "Active"
             /\ game_state'.status = "Settlement"]_vars

\* C16. inject_yield(amount) moves amount from the provider into the vault and
\* leaves total_tvl, every faction's tvl and score, epoch_number, status and
\* every user's position as they were.
C16_InjectYieldFrame ==
    [][(Step("inject_yield", "provider") /\ last'.result = "Ok")
       => /\ vault' = vault + last'.amount
          /\ provider_usdc' = provider_usdc - last'.amount
          /\ last'.transfers = <<Transfer("provider", "vault", last'.amount)>>
          /\ UNCHANGED <<game_state, user_position, shop_treasury, user_usdc>>]_vars

\* inject_yield has added tokens to a vault that holds deposits.
C16_Witness ==
    /\ last.op = "inject_yield" /\ last.result = "Ok" /\ last.amount > 0
    /\ game_state.total_tvl > 0
    /\ vault = game_state.total_tvl + last.amount

(***************************************************************************)
(* Scoring.                                                                *)
(***************************************************************************)
\* The faction whose share faction i is scored for, and the one it is scored
\* against.
Target(i) == CASE i = 0 -> 2 [] i = 1 -> 0 [] i = 2 -> 1
Predator(i) == CASE i = 0 -> 1 [] i = 1 -> 2 [] i = 2 -> 0

\* (d * 10000) / T rounded down, for 0 <= d <= T, by long division in base 100.
ScaledQuotient(d, T) ==
    LET r1 == (d % T) * 100
        r2 == (r1 % T) * 100
    IN  (d \div T) * 10000 + (r1 \div T) * 100 + (r2 \div T)

\* ((tvl[target] - tvl[predator]) * 10000) / total_tvl truncated toward zero.
ExactScore(i) ==
    LET d == Tvl(Target(i)) - Tvl(Predator(i))
    IN  IF d >= 0 THEN ScaledQuotient(d, game_state.total_tvl)
        ELSE 0 - ScaledQuotient(0 - d, game_state.total_tvl)

\* C17. Scoring formula: after a resolve_epoch with total_tvl > 0 the score of
\* each faction i is ((tvl[target_i] - tvl[predator_i]) * 10000) / total_tvl
\* truncated toward zero.
C17_ExactScores ==
    (/\ last.op = "resolve_epoch" /\ last.result = "Ok"
     /\ game_state.total_tvl > 0)
    => \A i \in Factions : Score(i) = ExactScore(i)

\* C18. In every reachable state the three scores sum to at most 3 (the number
\* of factions) in absolute value, and each score lies in [-10000, 10000].
C18_BoundedScores ==
    /\ Abs(ScoreSum) <= NumFactions
    /\ \A f \in Factions : Score(f) \in (0 - ScoreScale)..ScoreScale

\* A resolve_epoch has scored three factions, none of them at 0, and the casts
\* have left a sum that is not 0.
C18_Witness ==
    /\ last.op = "resolve_epoch" /\ last.result = "Ok"
    /\ game_state.total_tvl > 0
    /\ \A f \in Factions : Score(f) # 0
    /\ Abs(ScoreSum) >= 1

(***************************************************************************)
(* Failure.                                                                *)
(***************************************************************************)
\* The settlement burns user u's shield and a slot then asks the vault for the
\* price of a shield, which the vault does not hold.
ShopTransferRejected(u) ==
    /\ UserScore(u) <= 0
    /\ Inventory(u).shield_count >= 1
    /\ \/ BuysShieldFromPayout(Settings(u).priority_slot_1)
       \/ BuysShieldFromPayout(Settings(u).priority_slot_2)
    /\ vault < ShieldPrice

\* The settlement with budget B buys a sword in slot 1, nothing in slot 2, and
\* the fallback then asks the vault for more than is left in it.
WalletTransferRejected(u, B) ==
    /\ B > SwordPrice
    /\ Settings(u).priority_slot_1.item_id = 1
    /\ Settings(u).priority_slot_1.threshold <= B
    /\ Settings(u).priority_slot_2.item_id \notin 1..3
    /\ Settings(u).fallback_action = SendToWallet
    /\ vault >= SwordPrice
    /\ vault < B

\* C15. Failure atomicity: an instruction that fails leaves every account as
\* it was before the call; and a settlement whose transfer to the shop is
\* rejected after a shield was burnt, or whose transfer to the wallet is
\* rejected after a sword was credited, fails and leaves every account as it
\* was.
C15_FailureAtomic ==
    [][/\ last'.result # "Ok" => UNCHANGED ledger
       /\ \A u \in Users :
             (/\ user_position[u].registered
              /\ Step("execute_settlement", u)
              /\ \/ ShopTransferRejected(u)
                 \/ /\ ~Budget(u, last'.amount).total_loss
                    /\ WalletTransferRejected(u, Budget(u, last'.amount).final_yield))
             => /\ last'.result = "TransferFailure"
                /\ UNCHANGED ledger]_vars

\* A settlement for a losing user who holds one shield and whose slot 2 buys a
\* shield has failed on the transfer to the shop, and the shield is still
\* there.
C15_Witness ==
    /\ last.op = "execute_settlement" /\ last.result = "TransferFailure"
    /\ user_position[last.user].registered
    /\ ShopTransferRejected(last.user)
    /\ Inventory(last.user).shield_count = 1

(***************************************************************************)
(* Settlement value accounting.                                            *)
(***************************************************************************)
\* The number of the two slots that name the item.
SlotsNaming(settings, id) ==
    (IF settings.priority_slot_1.item_id = id THEN 1 ELSE 0)
    + (IF settings.priority_slot_2.item_id = id THEN 1 ELSE 0)

\* The step settles the position of u through the pipeline and accounts for the
\* whole of its starting budget B: each counter grows by at most one per slot
\* naming its item, the shop receives the sum of the prices of the items added,
\* and the remainder B - sum either reaches the token account of wallet
\* (SendToWallet) or is added to deposited_amount, the faction's tvl and
\* total_tvl alike (AutoCompound), the other of the two staying as it was.
SettlementAccounting(u, wallet) ==
    LET b        == Budget(u, last'.amount)
        B        == b.final_yield
        settings == Settings(u)
        f        == user_position[u].faction_id
        after    == user_position'[u].inventory
        swords   == after.sword_count - b.inventory.sword_count
        shields  == after.shield_count - b.inventory.shield_count
        glasses  == after.spyglass_count - b.inventory.spyglass_count
        spent    == swords * SwordPrice + shields * ShieldPrice
                    + glasses * SpyglassPrice
        rest     == B - spent
    IN  /\ swords \in 0..SlotsNaming(settings, 1)
        /\ shields \in 0..SlotsNaming(settings, 2)
        /\ glasses \in 0..SlotsNaming(settings, 3)
        /\ shop_treasury' = shop_treasury + spent
        /\ rest >= 0
        /\ IF settings.fallback_action = SendToWallet
           THEN /\ user_usdc' = [user_usdc EXCEPT ![wallet] = @ + rest]
                /\ vault' = vault - B
                /\ user_position'[u].deposited_amount = Deposited(u)
                /\ game_state' = game_state
           ELSE /\ user_position'[u].deposited_amount = Deposited(u) + rest
                /\ game_state'.total_tvl = game_state.total_tvl + rest
                /\ game_state'.factions[f].tvl = Tvl(f) + rest
                /\ vault' = vault - spent
                /\ user_usdc' = user_usdc

\* C19. Settlement value accounting: every settlement that commits and reaches
\* the pipeline with budget B adds at most one item per slot, moves the sum of
\* the prices of the items added from the pool to the shop, and leaves B minus
\* that sum either in the wallet of the user settled (SendToWallet) or added
\* alike to deposited_amount, the user's faction tvl and total_tvl
\* (AutoCompound), never both.
C19_ValueAccounting ==
    [][\A u \in Users :
          (Settled(u) /\ last'.pipeline) => SettlementAccounting(u, u)]_vars

(***************************************************************************)
(* Inventory.                                                              *)
(***************************************************************************)
\* C20. Inventory monotonicity: in every step, for every registered user,
\* sword_count and spyglass_count do not decrease; shield_count decreases only
\* in a settlement of that user whose faction score is <= 0, and then by exactly
\* one; and no instruction other than a settlement of that user that commits
\* changes any of the three counters.
C20_InventoryMonotone ==
    [][\A u \in Users :
          user_position[u].registered
          => LET before == Inventory(u)
                 after  == user_position'[u].inventory
             IN  /\ after.sword_count >= before.sword_count
                 /\ after.spyglass_count >= before.spyglass_count
                 /\ after.shield_count < before.shield_count
                    => /\ Step("execute_settlement", u)
                       /\ UserScore(u) <= 0
                       /\ after.shield_count = before.shield_count - 1
                 /\ after # before
                    => /\ Step("execute_settlement", u)
                       /\ last'.result = "Ok"]_vars

\* A losing user's settlement has burnt their only shield, bought nothing with
\* the insurance payout and left their sword in place.
C20_Witness ==
    /\ last.op = "execute_settlement" /\ last.result = "Ok" /\ last.pipeline
    /\ last.final_yield = InsurancePayout
    /\ UserScore(last.user) <= 0
    /\ Purchases(last.transfers, ShieldPrice) = 0
    /\ Inventory(last.user).shield_count = 0
    /\ Inventory(last.user).sword_count >= 1

(***************************************************************************)
(* Repeated settlement.                                                    *)
(***************************************************************************)
\* The step is a settlement of user u's position directly after a settlement
\* of the same position that committed.
Resettled(u) ==
    /\ user_position[u].registered
    /\ last.op = "execute_settlement" /\ last.user = u /\ last.result = "Ok"
    /\ Step("execute_settlement", u)

\* Both slots of u are empty and the fallback compounds.
CompoundsAll(u) ==
    /\ Settings(u).priority_slot_1.item_id = 0
    /\ Settings(u).priority_slot_2.item_id = 0
    /\ Settings(u).fallback_action = AutoCompound

\* Compounding amount B for u overflows none of the three counters.
CanCompound(u, B) ==
    /\ B # None
    /\ Deposited(u) + B <= MaxU64
    /\ game_state.total_tvl + B <= MaxU64

\* C21. No settlement idempotency guard: a settlement of a position that was
\* settled by the instruction before it, in the same epoch, is refused for no
\* reason of its own (it fails only where a transfer or a checked addition
\* fails) and has its effects again: for a winning user who compounds
\* everything and yield Y > 0 it commits and deposited_amount, the faction's
\* tvl and total_tvl each grow by the budget; for a losing user with shields it
\* burns one shield, so that shield_count ends one lower plus the shields the
\* slots buy, and it commits when the user compounds everything.
C21_RepeatSettlement ==
    [][\A u \in Users :
          Resettled(u)
          => LET b == Budget(u, last'.amount)
                 B == b.final_yield
                 f == user_position[u].faction_id
             IN  /\ last'.result \in {"Ok", "Panic", "TransferFailure"}
                 /\ (/\ UserScore(u) > 0 /\ last'.amount > 0
                     /\ CompoundsAll(u) /\ CanCompound(u, B))
                    => /\ last'.result = "Ok"
                       /\ user_position'[u].deposited_amount = Deposited(u) + B
                       /\ game_state'.factions[f].tvl = Tvl(f) + B
                       /\ game_state'.total_tvl = game_state.total_tvl + B
                 /\ (/\ UserScore(u) <= 0 /\ Inventory(u).shield_count > 0
                     /\ last'.result = "Ok")
                    => user_position'[u].inventory.shield_count
                         = Inventory(u).shield_count - 1
                           + Purchases(last'.transfers, ShieldPrice)
                 /\ (/\ UserScore(u) <= 0 /\ Inventory(u).shield_count > 0
                     /\ CompoundsAll(u) /\ CanCompound(u, InsurancePayout))
                    => /\ last'.result = "Ok"
                       /\ user_position'[u].inventory.shield_count
                            = Inventory(u).shield_count - 1
                       /\ user_position'[u].deposited_amount
                            = Deposited(u) + InsurancePayout]_vars

\* A winning user who compounds everything has been settled twice in the first
\* epoch: deposited_amount, all of it compounded yield, is twice the budget.
C21_Witness ==
    /\ last.op = "execute_settlement" /\ last.result = "Ok" /\ last.pipeline
    /\ game_state.epoch_number = 1
    /\ UserScore(last.user) > 0
    /\ CompoundsAll(last.user)
    /\ last.final_yield > 0
    /\ user_usdc[last.user] = 0
    /\ Inventory(last.user) = DefaultInventory
    /\ Deposited(last.user) = 2 * last.final_yield

(***************************************************************************)
(* Faction membership.                                                     *)
(***************************************************************************)
\* C22. Faction membership: a register_user with a faction id outside {0,1,2}
\* fails and creates or changes no position, with InvalidFaction when the user
\* has no position yet; a register_user that commits stores the id it was
\* given; and every registered user's faction_id is in {0,1,2} in every state
\* and, like the registration itself, is left as it is by every step.
C22_FactionMembership ==
    /\ [](\A u \in Users :
             user_position[u].registered => user_position[u].faction_id \in Factions)
    /\ [][\A u \in Users :
             /\ (Step("register_user", u) /\ last'.amount \notin Factions)
                => /\ last'.result # "Ok"
                   /\ UNCHANGED ledger
                   /\ ~user_position[u].registered
                      => /\ last'.result = "InvalidFaction"
                         /\ ~user_position'[u].registered
             /\ (Step("register_user", u) /\ last'.result = "Ok")
                => /\ user_position'[u].registered
                   /\ user_position'[u].faction_id = last'.amount
             /\ user_position[u].registered
                => /\ user_position'[u].registered
                   /\ user_position'[u].faction_id = user_position[u].faction_id]_vars

\* A register_user with faction id 3 has failed for a user who has no position,
\* while the other user, registered in faction 2, holds a deposit.
C22_Witness ==
    /\ last.op = "register_user" /\ last.result = "InvalidFaction"
    /\ last.amount = NumFactions
    /\ ~user_position[last.user].registered
    /\ \E u \in Users :
          /\ user_position[u].registered
          /\ user_position[u].faction_id = 2
          /\ Deposited(u) > 0
          /\ Tvl(2) = Deposited(u)

====
